---- MODULE Spec2Model ----
(*********************************************************************)
(* tprofiler::TimeProfiler<TM> (include/time_profiler/time_profiler.h) *)
(* built with ENABLE_STOPWATCH: one stopwatch instance from            *)
(* construction to destruction, the clock it reads, the stream it      *)
(* prints to and the file it writes.                                   *)
(*                                                                     *)
(* Numbers.  A double is modelled by the exact non-negative rational   *)
(* <<n, d>> in lowest terms (the 53-bit rounding of the arithmetic is  *)
(* abstracted away); the 6-significant-digit rounding of               *)
(* operator<<(double) is modelled digit by digit.  The clock counts    *)
(* integer ticks of one nanosecond.                                    *)
(*********************************************************************)
EXTENDS Integers, Sequences, FiniteSets, TLC

(* ------------------------------ bounds --------------------------- *)
\* the last tick of the clock at which a call is made
MaxTime == 2
\* successful takeSample/takeAverageSample calls in one lifetime
MaxSamples == 2
\* cap of m_count
MaxCount == 3
\* the last second of the calendar at which an instance is constructed
MaxWall == 2
\* instances alive at the same time
MaxTimers == 3

\* value of high_resolution_clock::now() when the model starts (the
\* clock does not start at its epoch)
BootTime == 1

(* ------------------------ rationals ------------------------------ *)
RECURSIVE GCD(_, _)
GCD(a, b) == IF b = 0 THEN a ELSE GCD(b, a % b)

Norm(r) == IF r[1] = 0 THEN <<0, 1>>
           ELSE LET g == GCD(r[1], r[2]) IN <<r[1] \div g, r[2] \div g>>

RZero == <<0, 1>>
RAdd(a, b) == Norm(<<a[1] * b[2] + b[1] * a[2], a[2] * b[2]>>)
RDivInt(a, k) == Norm(<<a[1], a[2] * k>>)

RECURSIVE RSum(_)
RSum(s) == IF s = <<>> THEN RZero ELSE RAdd(Head(s), RSum(Tail(s)))

RECURSIVE Pow10(_)
Pow10(k) == IF k = 0 THEN 1 ELSE 10 * Pow10(k - 1)

(* ------------------------- time units ---------------------------- *)
\* TimeType<TM>::timeUnit of the instantiations the model covers:
\* std::chrono::nanoseconds and std::chrono::microseconds (whose label, the
\* Greek letter mu followed by s, is written "us" here)
Units == {"ns", "us"}

\* clock ticks (ns) in one unit of TimeType<TM>::timePeriod
TicksPerUnit(tm) == IF tm = "ns" THEN 1 ELSE 1000

(* ------------- operator<<(std::ostream&, double) ----------------- *)
\* std::ios_base::precision() of a stream whose flags were never changed
Precision == 6

\* n/d > 0 brought into [1, 10): <<n', d', e>> with n/d = n'/d' * 10^e
RECURSIVE Scale(_, _, _)
Scale(n, d, e) == IF n >= 10 * d THEN Scale(n, 10 * d, e + 1)
                  ELSE IF n < d THEN Scale(10 * n, d, e - 1)
                  ELSE <<n, d, e>>

\* the first k decimal digits of num/den (num < 10*den), and ten times the
\* remainder that is left
RECURSIVE Digits(_, _, _, _)
Digits(num, den, k, acc) ==
  IF k = 0 THEN <<acc, num>>
  ELSE Digits((num % den) * 10, den, k - 1, acc * 10 + (num \div den))

\* the decimal numeral the stream prints for r: Precision significant
\* digits mant (rounded to nearest, ties to even) and the exponent of the
\* first of them; the numeral denotes mant * 10^(exp - Precision + 1)
Format(r) ==
  IF r[1] = 0 THEN [mant |-> 0, exp |-> 0]
  ELSE LET s   == Scale(r[1], r[2], 0)
           dg  == Digits(s[1], s[2], Precision, 0)
           up  == \/ dg[2] > 5 * s[2]
                  \/ dg[2] = 5 * s[2] /\ dg[1] % 2 = 1
           m   == IF up THEN dg[1] + 1 ELSE dg[1]
       IN IF m = Pow10(Precision)
          THEN [mant |-> Pow10(Precision - 1), exp |-> s[3] + 1]
          ELSE [mant |-> m, exp |-> s[3]]

\* what is written to the file: text fragments and numerals
Lit(s) == [t |-> "lit", s |-> s, mant |-> 0, exp |-> 0]
Num(f) == [t |-> "num", s |-> "", mant |-> f.mant, exp |-> f.exp]

(* ----------------------- constructor inputs ---------------------- *)
Names == {"loop"}
Colours == {"#ff0000"}
OutputDirs == {"", "out"}

VARIABLES
  pc,               \* "init" (members default-initialised), "live", "done"
  TM,               \* the template argument, by its timeUnit label
  now,              \* high_resolution_clock::now() at the last call, in ticks
  m_buffer, m_startPoint, m_total, m_partial, m_count, m_isInitialized,
  isOpen,           \* m_outputFile.is_open()
  file,             \* what has been written to m_outputFile, in order
  cout,             \* what the last call wrote to std::cout
  segs,             \* history: elapsed times folded in by pause() since the
                    \* last sample or reset
  hist,             \* history: for each entry of m_buffer, by how many
                    \* segments its sum was divided
  finalized,        \* history: every value finalized in this lifetime
  dropped,          \* history: how many of finalized the last reset() call
                    \* found in m_buffer or already dropped
  last,             \* history: the last call and the state it was made in
  wall,             \* time(0): the calendar time, in seconds
  timers            \* the instances of the process that are alive, each
                    \* with the path setFileName() built for it

vars == <<pc, TM, now, m_buffer, m_startPoint, m_total, m_partial, m_count,
          m_isInitialized, isOpen, file, cout, segs, hist, finalized, dropped,
          last, wall, timers>>

\* one instance, seen through its members and its sink
instance == <<pc, TM, now, m_buffer, m_startPoint, m_total, m_partial, m_count,
              m_isInitialized, isOpen, file, cout, segs, hist, finalized,
              dropped, last>>

\* the process around the instance: the calendar and the other instances
process == <<wall, timers>>

\* elapsedTime() reading the clock without subtracting m_startPoint
elapsedTime_sinceEpoch == Norm(<<now', TicksPerUnit(TM)>>)

\* duration<double, timePeriod>(now() - m_startPoint).count(), now' being the
\* time of the call
elapsedTime == Norm(<<now' - m_startPoint, TicksPerUnit(TM)>>)

(* ----------------------- history bookkeeping --------------------- *)
\* the time from tick t1 to tick t2, in units of TM
Elapsed(t1, t2) == Norm(<<t2 - t1, TicksPerUnit(TM)>>)

Snapshot == [m_buffer |-> m_buffer, m_startPoint |-> m_startPoint,
             m_total |-> m_total, m_partial |-> m_partial,
             m_count |-> m_count, m_isInitialized |-> m_isInitialized,
             isOpen |-> isOpen, file |-> file, segs |-> segs, pc |-> pc]

\* no start() since the timer was last left not running
NoRef == -1

\* afterStart: the call before this one was start(), made at startAt;
\* ref: the time of the latest start() if no call since has left the timer
\* not running, preRef: the same before this call
Called(op) == last' = [op |-> op, at |-> now',
                       afterStart |-> (last.op = "start"),
                       startAt |-> IF last.op = "start" THEN last.at ELSE 0,
                       pre |-> Snapshot,
                       preRef |-> last.ref,
                       ref |-> IF op = "start" THEN now'
                               ELSE IF m_isInitialized' THEN last.ref
                               ELSE NoRef]

(* --------------------------- Init -------------------------------- *)
Init ==
  /\ pc = "init"
  /\ TM \in Units
  /\ now = BootTime
  /\ m_buffer = <<>>
  /\ m_startPoint = 0
  /\ m_total = RZero
  /\ m_partial = RZero
  /\ m_count = 0
  /\ m_isInitialized = FALSE
  /\ isOpen = FALSE
  /\ file = <<>>
  /\ cout = <<>>
  /\ segs = <<>>
  /\ hist = <<>>
  /\ finalized = <<>>
  /\ dropped = 0
  /\ last = [op |-> "none", at |-> 0, afterStart |-> FALSE, startAt |-> 0,
             pre |-> Snapshot, preRef |-> NoRef, ref |-> NoRef]
  /\ wall = 0
  /\ timers = <<>>

\* the call is made d ticks after the call before it
Passes(d) ==
  /\ now + d <= MaxTime
  /\ now' = now + d
  /\ UNCHANGED process

\* start() emptying the buffer for the measurement it begins
start_clearsBuffer(d) ==
  /\ pc = "live"
  /\ Passes(d)
  /\ m_isInitialized' = TRUE
  /\ m_startPoint' = now'
  /\ m_buffer' = <<>>
  /\ cout' = <<>>
  /\ UNCHANGED <<pc, TM, m_total, m_partial, m_count, isOpen,
                 file, segs, hist, finalized, dropped>>
  /\ Called("start")

\* start() keeping the reference point of a measurement that is running
start_keepsFirst(d) ==
  /\ pc = "live"
  /\ Passes(d)
  /\ m_isInitialized' = TRUE
  /\ m_startPoint' = IF m_isInitialized THEN m_startPoint ELSE now'
  /\ cout' = <<>>
  /\ UNCHANGED <<pc, TM, m_buffer, m_total, m_partial, m_count, isOpen,
                 file, segs, hist, finalized, dropped>>
  /\ Called("start")

start(d) ==
  /\ pc = "live"
  /\ Passes(d)
  /\ m_isInitialized' = TRUE
  /\ m_startPoint' = now'
  /\ cout' = <<>>
  /\ UNCHANGED <<pc, TM, m_buffer, m_total, m_partial, m_count, isOpen,
                 file, segs, hist, finalized, dropped>>
  /\ Called("start")

\* what the constructor writes after opening the file
Header(name, colour) ==
  <<Lit("{\"dataSet\" : [\n"),
    Lit("{\"name\": "), Lit("\""), Lit(name),
    Lit("\", \"color\": \""), Lit(colour),
    Lit("\", \"data\":[")>>

\* if(std::strlen(outputDir)>0): the constructor opens a file at all
hasOutputDir(outputDir) == outputDir # ""

\* TimeProfiler(name, colour, outputDir); opened: whether ofstream::open
\* succeeds
Construct(name, colour, outputDir, opened, d) ==
  /\ pc = "init"
  /\ Passes(d)
  /\ pc' = "live"
  /\ IF hasOutputDir(outputDir) /\ opened
     THEN /\ isOpen' = TRUE
          /\ file' = Header(name, colour)
     ELSE UNCHANGED <<isOpen, file>>
  /\ cout' = <<>>
  /\ UNCHANGED <<TM, m_buffer, m_startPoint, m_total, m_partial,
                 m_count, m_isInitialized, segs, hist, finalized, dropped>>
  /\ Called("construct")

(* ------------------- the files of a process ---------------------- *)
\* the first rand() after srand(seed): a fixed function of the seed,
\* whichever generator the library has (here a Lehmer one)
Rand(seed) == (75 * (seed + 1)) % 65537

\* strftime "_%y%m%d%H%M%S" of gmtime(t): date and hour, minute, second
Timestamp(t) == <<t \div 3600, (t \div 60) % 60, t % 60>>

\* setFileName(outputDir, name, prefix) when time(0) returns seed and
\* std::time({}), a few lines later, returns t
setFileName(outputDir, name, prefix, seed, t) ==
  [dir |-> outputDir, slash |-> (outputDir # ""), prefix |-> prefix,
   name |-> name, suffix |-> 10 + (Rand(seed) % 90), stamp |-> Timestamp(t),
   ext |-> ".js"]

\* m_outputFile of an instance that never called open()
NoPath ==
  [dir |-> "", slash |-> FALSE, prefix |-> "", name |-> "", suffix |-> 0,
   stamp |-> <<0, 0, 0>>, ext |-> ""]

\* a second of the calendar passes
Tock ==
  /\ wall < MaxWall
  /\ wall' = wall + 1
  /\ UNCHANGED timers
  /\ UNCHANGED instance

\* the constructor as the process sees it: one more instance, its sink open
\* on the path setFileName() returns; late: the second changes between
\* time(0) and std::time({})
NewTimer(name, outputDir, opened, late) ==
  /\ Len(timers) < MaxTimers
  /\ wall + late <= MaxWall
  /\ wall' = wall + late
  /\ timers' = Append(timers,
       [name |-> name, outputDir |-> outputDir,
        open |-> hasOutputDir(outputDir) /\ opened,
        path |-> IF hasOutputDir(outputDir)
                 THEN setFileName(outputDir, name, "line_dataset_", wall,
                                  wall + late)
                 ELSE NoPath])
  /\ UNCHANGED instance

\* the destructor as the process sees it: the i-th instance is gone, its
\* sink closed
EndTimer(i) ==
  /\ i \in DOMAIN timers
  /\ timers' = [k \in 1..(Len(timers) - 1) |->
                  IF k < i THEN timers[k] ELSE timers[k + 1]]
  /\ UNCHANGED wall
  /\ UNCHANGED instance

\* takeSample() adding the segment that is still running to the paused ones
sampledPartial_addsRunning ==
  IF m_count = 0 THEN elapsedTime
  ELSE IF m_isInitialized THEN RAdd(m_partial, elapsedTime) ELSE m_partial

\* the value takeSample() finalizes: if(m_count==0) m_partial=elapsedTime()
sampledPartial == IF m_count = 0 THEN elapsedTime ELSE m_partial

\* takeSample() without its m_partial=0: the value just sampled stays
partialAfterSample_kept == sampledPartial

\* m_partial=0 at the end of takeSample()
partialAfterSample == RZero

\* the guard of takeSample() with the comparison of m_count turned around
timerDidNotStart_wrongCount == ~m_isInitialized /\ m_count # 0

\* if(!m_isInitialized && m_count==0)
timerDidNotStart == ~m_isInitialized /\ m_count = 0

takeSample(print, d) ==
  /\ pc = "live"
  /\ Passes(d)
  /\ IF timerDidNotStart
     THEN /\ cout' = <<"Timer did not start.">>
          /\ UNCHANGED <<m_buffer, m_total, m_partial, m_count,
                         m_isInitialized, segs, hist, finalized, dropped>>
     ELSE LET partial == sampledPartial
          IN /\ Len(finalized) < MaxSamples
             /\ cout' = IF print THEN <<"Elapsed time:", partial, TM>>
                        ELSE <<>>
             /\ m_buffer' = Append(m_buffer, partial)
             /\ m_total' = RAdd(m_total, partial)
             /\ m_partial' = partialAfterSample
             /\ m_count' = 0
             /\ m_isInitialized' = FALSE
             /\ segs' = <<>>
             /\ hist' = Append(hist, 1)
             /\ finalized' = Append(finalized, partial)
             /\ UNCHANGED dropped
  /\ UNCHANGED <<pc, TM, m_startPoint, isOpen, file>>
  /\ Called("takeSample")

\* double averageTime=m_partial/static_cast<double>(m_count)
averageTime == RDivInt(m_partial, m_count)

\* takeAverageSample() adding the average it appended to m_total
totalAfterAverage_addsAverage == RAdd(m_total, averageTime)

\* m_total=m_total+m_partial
totalAfterAverage == RAdd(m_total, m_partial)

\* takeAverageSample() clearing m_isInitialized before it tests m_count
takeAverageSample_clearsRunning(print, d) ==
  /\ pc = "live"
  /\ Passes(d)
  /\ m_isInitialized' = FALSE
  /\ IF m_count = 0
     THEN /\ cout' = <<"use pause() to capture elapsed times">>
          /\ UNCHANGED <<m_buffer, m_total, m_partial, m_count,
                         segs, hist, finalized, dropped>>
     ELSE /\ Len(finalized) < MaxSamples
          /\ m_buffer' = Append(m_buffer, averageTime)
          /\ m_count' = 0
          /\ cout' = IF print
                     THEN <<"Average elapsed time: ", averageTime, TM>>
                     ELSE <<>>
          /\ m_total' = totalAfterAverage
          /\ m_partial' = RZero
          /\ segs' = <<>>
          /\ hist' = Append(hist, Len(segs))
          /\ finalized' = Append(finalized, averageTime)
          /\ UNCHANGED dropped
  /\ UNCHANGED <<pc, TM, m_startPoint, isOpen, file>>
  /\ Called("takeAverageSample")

takeAverageSample(print, d) ==
  /\ pc = "live"
  /\ Passes(d)
  /\ IF m_count = 0
     THEN /\ cout' = <<"use pause() to capture elapsed times">>
          /\ UNCHANGED <<m_buffer, m_total, m_partial, m_count,
                         m_isInitialized, segs, hist, finalized, dropped>>
     ELSE /\ Len(finalized) < MaxSamples
          /\ m_buffer' = Append(m_buffer, averageTime)
          /\ m_count' = 0
          /\ cout' = IF print
                     THEN <<"Average elapsed time: ", averageTime, TM>>
                     ELSE <<>>
          /\ m_total' = totalAfterAverage
          /\ m_partial' = RZero
          /\ m_isInitialized' = FALSE
          /\ segs' = <<>>
          /\ hist' = Append(hist, Len(segs))
          /\ finalized' = Append(finalized, averageTime)
          /\ UNCHANGED dropped
  /\ UNCHANGED <<pc, TM, m_startPoint, isOpen, file>>
  /\ Called("takeAverageSample")

\* pause() with m_count++ moved out of the if
pause_countsEveryCall(d) ==
  /\ pc = "live"
  /\ Passes(d)
  /\ m_count < MaxCount
  /\ IF m_isInitialized
     THEN /\ m_partial' = RAdd(m_partial, elapsedTime)
          /\ cout' = <<>>
          /\ segs' = Append(segs, Elapsed(m_startPoint, now'))
     ELSE /\ cout' = <<"Timer did not start.">>
          /\ UNCHANGED <<m_partial, segs>>
  /\ m_count' = m_count + 1
  /\ m_isInitialized' = FALSE
  /\ UNCHANGED <<pc, TM, m_buffer, m_startPoint, m_total, isOpen, file,
                 hist, finalized, dropped>>
  /\ Called("pause")

\* pause() reading the clock without testing m_isInitialized
pause_unguarded(d) ==
  /\ pc = "live"
  /\ Passes(d)
  /\ m_count < MaxCount
  /\ m_partial' = RAdd(m_partial, elapsedTime)
  /\ m_count' = m_count + 1
  /\ cout' = <<>>
  /\ segs' = Append(segs, Elapsed(m_startPoint, now'))
  /\ m_isInitialized' = FALSE
  /\ UNCHANGED <<pc, TM, m_buffer, m_startPoint, m_total, isOpen, file,
                 hist, finalized, dropped>>
  /\ Called("pause")

\* pause() assigning the elapsed time to m_partial instead of adding it
pause_overwritesPartial(d) ==
  /\ pc = "live"
  /\ Passes(d)
  /\ IF m_isInitialized
     THEN /\ m_count < MaxCount
          /\ m_partial' = elapsedTime
          /\ m_count' = m_count + 1
          /\ cout' = <<>>
          /\ segs' = Append(segs, Elapsed(m_startPoint, now'))
     ELSE /\ cout' = <<"Timer did not start.">>
          /\ UNCHANGED <<m_partial, m_count, segs>>
  /\ m_isInitialized' = FALSE
  /\ UNCHANGED <<pc, TM, m_buffer, m_startPoint, m_total, isOpen, file,
                 hist, finalized, dropped>>
  /\ Called("pause")

pause(d) ==
  /\ pc = "live"
  /\ Passes(d)
  /\ IF m_isInitialized
     THEN /\ m_count < MaxCount
          /\ m_partial' = RAdd(m_partial, elapsedTime)
          /\ m_count' = m_count + 1
          /\ cout' = <<>>
          /\ segs' = Append(segs, Elapsed(m_startPoint, now'))
     ELSE /\ cout' = <<"Timer did not start.">>
          /\ UNCHANGED <<m_partial, m_count, segs>>
  /\ m_isInitialized' = FALSE
  /\ UNCHANGED <<pc, TM, m_buffer, m_startPoint, m_total, isOpen, file,
                 hist, finalized, dropped>>
  /\ Called("pause")

totalTime(d) ==
  /\ pc = "live"
  /\ Passes(d)
  /\ cout' = <<m_total, TM>>
  /\ UNCHANGED <<pc, TM, m_buffer, m_startPoint, m_total, m_partial,
                 m_count, m_isInitialized, isOpen, file, segs, hist,
                 finalized, dropped>>
  /\ Called("totalTime")

\* the loop of flush() writing ", " after every entry
RECURSIVE flushData_commaAfterEach(_, _, _)
flushData_commaAfterEach(buf, a, out) ==
  IF buf = <<>> THEN out
  ELSE flushData_commaAfterEach(Tail(buf), TRUE,
                 out \o <<Num(Format(Head(buf))), Lit(", ")>>)

\* the loop of flush(): the entries of buf, ", " before all but the first
RECURSIVE flushData(_, _, _)
flushData(buf, a, out) ==
  IF buf = <<>> THEN out
  ELSE flushData(Tail(buf), TRUE,
                 (IF a THEN Append(out, Lit(", ")) ELSE out)
                   \o <<Num(Format(Head(buf)))>>)

\* the body of reset() without m_total=0
resetMembers_keepsTotal ==
  /\ m_isInitialized' = FALSE
  /\ m_total' = m_total
  /\ m_partial' = RZero
  /\ m_count' = 0
  /\ m_buffer' = <<>>

\* the body of reset() without m_buffer.clear()
resetMembers_keepsBuffer ==
  /\ m_isInitialized' = FALSE
  /\ m_total' = RZero
  /\ m_partial' = RZero
  /\ m_count' = 0
  /\ m_buffer' = m_buffer

\* the body of reset()
resetMembers ==
  /\ m_isInitialized' = FALSE
  /\ m_total' = RZero
  /\ m_partial' = RZero
  /\ m_count' = 0
  /\ m_buffer' = <<>>

\* reset() dumping the buffer to the sink before it clears it
reset_dumpsBuffer(d) ==
  /\ pc = "live"
  /\ Passes(d)
  /\ resetMembers
  /\ file' = IF isOpen THEN flushData(m_buffer, FALSE, file) ELSE file
  /\ cout' = <<>>
  /\ segs' = <<>>
  /\ hist' = <<>>
  /\ dropped' = Len(finalized)
  /\ UNCHANGED <<pc, TM, m_startPoint, isOpen, finalized>>
  /\ Called("reset")

\* reset() going through flush(), which closes the sink
reset_closesSink(d) ==
  /\ pc = "live"
  /\ Passes(d)
  /\ resetMembers
  /\ isOpen' = FALSE
  /\ cout' = <<>>
  /\ segs' = <<>>
  /\ hist' = <<>>
  /\ dropped' = Len(finalized)
  /\ UNCHANGED <<pc, TM, m_startPoint, file, finalized>>
  /\ Called("reset")

reset(d) ==
  /\ pc = "live"
  /\ Passes(d)
  /\ resetMembers
  /\ cout' = <<>>
  /\ segs' = <<>>
  /\ hist' = <<>>
  /\ dropped' = Len(finalized)
  /\ UNCHANGED <<pc, TM, m_startPoint, isOpen, file, finalized>>
  /\ Called("reset")

\* flush() with its reset() moved into the if(m_outputFile.is_open()) block
Destroy_resetsOnlyWithSink(d) ==
  /\ pc = "live"
  /\ Passes(d)
  /\ pc' = "done"
  /\ IF isOpen
     THEN /\ file' = flushData(m_buffer, FALSE, file)
                       \o <<Lit("]}\n"), Lit("], \"timeUnits\": \""),
                            Lit(TM), Lit("\"}\n")>>
          /\ isOpen' = FALSE
          /\ resetMembers
     ELSE UNCHANGED <<isOpen, file, m_isInitialized, m_total, m_partial,
                      m_count, m_buffer>>
  /\ cout' = <<>>
  /\ segs' = <<>>
  /\ hist' = <<>>
  /\ UNCHANGED <<TM, m_startPoint, finalized, dropped>>
  /\ Called("flush")

\* ~TimeProfiler(): flush(), which ends with reset()
Destroy(d) ==
  /\ pc = "live"
  /\ Passes(d)
  /\ pc' = "done"
  /\ IF isOpen
     THEN /\ file' = flushData(m_buffer, FALSE, file)
                       \o <<Lit("]}\n"), Lit("], \"timeUnits\": \""),
                            Lit(TM), Lit("\"}\n")>>
          /\ isOpen' = FALSE
     ELSE UNCHANGED <<isOpen, file>>
  /\ resetMembers
  /\ cout' = <<>>
  /\ segs' = <<>>
  /\ hist' = <<>>
  /\ UNCHANGED <<TM, m_startPoint, finalized, dropped>>
  /\ Called("flush")

(* ======================== properties ============================= *)
\* the value the last call appended to m_buffer
Appended == m_buffer[Len(m_buffer)]
\* the last call appended exactly one entry to m_buffer
AppendedOne == /\ Len(m_buffer) = Len(last.pre.m_buffer) + 1
               /\ SubSeq(m_buffer, 1, Len(last.pre.m_buffer)) = last.pre.m_buffer
\* the average of the elapsed times in s
Average(s) == RDivInt(RSum(s), Len(s))

\* C1 as stated: in every state, start() at t1 directly followed by
\* takeSample() at t2 appends exactly one entry, equal to t2 - t1, and leaves
\* m_count = 0.
C1_StartThenSampleAnyState ==
  (last.op = "takeSample" /\ last.afterStart)
    => /\ AppendedOne
       /\ Appended = Elapsed(last.startAt, last.at)
       /\ m_count = 0

\* C1 amended: when no paused segment is pending (m_count = 0) at the
\* start(), start() at t1 directly followed by takeSample() at t2 appends
\* exactly one entry, equal to t2 - t1, and leaves m_count = 0.
C1_StartThenSample ==
  (last.op = "takeSample" /\ last.afterStart /\ last.pre.m_count = 0)
    => /\ AppendedOne
       /\ Appended = Elapsed(last.startAt, last.at)
       /\ m_count = 0

C1_Witness ==
  /\ last.op = "takeSample" /\ last.afterStart /\ last.pre.m_count = 0
  /\ last.at > last.startAt
  /\ last.pre.m_buffer # <<>>

\* C2: takeAverageSample() called with m_count > 0 appends one value, the sum
\* of the elapsed times of the segments folded in by the pause() calls that
\* found the timer running since the last sample or reset, divided by the
\* number of those segments; a pause() that found it not running adds to
\* neither.
C2_AverageOfSegments ==
  (last.op = "takeAverageSample" /\ last.pre.m_count > 0)
    => /\ AppendedOne
       /\ Len(last.pre.segs) = last.pre.m_count
       /\ Appended = Average(last.pre.segs)

\* an average of three segments that is not a whole number of ticks
C2_Witness ==
  /\ last.op = "takeAverageSample"
  /\ Len(last.pre.segs) = 3
  /\ Appended[2] = 3 * TicksPerUnit(TM)

\* C3: in the loop of usage example 2 (k >= 1 times start() ... pause(),
\* then takeSample()), the value takeSample() captures is the average of the
\* k elapsed times.
C3_LoopSampleIsAverage ==
  last.op = "takeSample"
    => /\ AppendedOne
       /\ Appended = Average(last.pre.segs)

\* a * k
RMulInt(a, k) == Norm(<<a[1] * k, a[2]>>)

\* the sum of the entries of buf, each multiplied by its weight in w
RECURSIVE WeightedSum(_, _)
WeightedSum(buf, w) ==
  IF buf = <<>> THEN RZero
  ELSE RAdd(RMulInt(Head(buf), Head(w)), WeightedSum(Tail(buf), Tail(w)))

\* C4 as stated: m_total is the sum of the entries appended to m_buffer since
\* construction or the last reset().
C4_TotalIsSumOfBuffer == m_total = RSum(m_buffer)

\* C4 amended: m_total is the sum of the elapsed time behind the entries
\* appended since construction or the last reset(): the entry itself for
\* one appended by takeSample(), the entry times its number of segments (the
\* sum that was averaged) for one appended by takeAverageSample().
C4_TotalIsSumOfPartials ==
  /\ Len(hist) = Len(m_buffer)
  /\ m_total = WeightedSum(m_buffer, hist)

\* an average of several segments and a plain sample are in the buffer, and
\* the total is not the sum of the buffer
C4_Witness ==
  /\ Len(m_buffer) = 2
  /\ \E i \in 1..2 : hist[i] >= 2 /\ m_buffer[i][1] > 0
  /\ \E i \in 1..2 : hist[i] = 1
  /\ m_total # RSum(m_buffer)

\* the members the calls work on are what they were before the last call
MeasurementUnchanged ==
  /\ m_buffer = last.pre.m_buffer
  /\ m_total = last.pre.m_total
  /\ m_partial = last.pre.m_partial
  /\ m_count = last.pre.m_count
  /\ m_isInitialized = last.pre.m_isInitialized
SinkUnchanged ==
  /\ isOpen = last.pre.isOpen
  /\ file = last.pre.file

\* C5: takeSample() called when the timer is not running and m_count = 0
\* changes none of m_buffer, m_total, m_partial, m_count, m_isInitialized,
\* writes nothing to the sink and prints only the advisory.
C5_SampleNotStartedIsNoOp ==
  (last.op = "takeSample" /\ ~last.pre.m_isInitialized /\ last.pre.m_count = 0)
    => /\ MeasurementUnchanged
       /\ SinkUnchanged
       /\ cout = <<"Timer did not start.">>

C5_Witness ==
  /\ last.op = "takeSample"
  /\ ~last.pre.m_isInitialized /\ last.pre.m_count = 0
  /\ last.pre.m_buffer # <<>> /\ last.pre.m_total # RZero
  /\ last.pre.isOpen

\* C6: takeAverageSample() called with m_count = 0, running or not, changes
\* none of m_buffer, m_total, m_partial, m_count, m_isInitialized and
\* m_startPoint, so a running measurement is still running from the same
\* reference point.
C6_AverageWithoutPauseIsNoOp ==
  (last.op = "takeAverageSample" /\ last.pre.m_count = 0)
    => /\ MeasurementUnchanged
       /\ m_startPoint = last.pre.m_startPoint
       /\ SinkUnchanged
       /\ cout = <<"use pause() to capture elapsed times">>

\* the failed call came while a measurement was running
C6_Witness ==
  /\ last.op = "takeAverageSample"
  /\ last.pre.m_count = 0
  /\ last.pre.m_isInitialized
  /\ last.at > last.pre.m_startPoint
  /\ last.pre.m_buffer # <<>>

\* C7: after reset() the timer is not running, m_total, m_partial and
\* m_count are 0 and m_buffer is empty, the sink is as open as before with
\* the same content; totalTime() changes no member and prints m_total, so
\* it prints zero after a reset().
C7_ResetClearsTotalTimeReads ==
  /\ (last.op = "reset")
       => /\ ~m_isInitialized
          /\ m_total = RZero /\ m_partial = RZero /\ m_count = 0
          /\ m_buffer = <<>>
          /\ SinkUnchanged
  /\ (last.op = "totalTime")
       => /\ MeasurementUnchanged
          /\ m_startPoint = last.pre.m_startPoint
          /\ SinkUnchanged
          /\ cout = <<last.pre.m_total, TM>>

\* reset() of a running timer with a buffered sample, a paused segment and
\* an open sink
C7_Witness ==
  /\ last.op = "reset"
  /\ last.pre.m_isInitialized
  /\ last.pre.m_total # RZero /\ last.pre.m_count > 0
  /\ last.pre.m_buffer # <<>>
  /\ last.pre.isOpen /\ isOpen

\* the value of a numeral of the file, as a reader of the file parses it
Parse(tok) ==
  LET e == tok.exp - Precision + 1
  IN Norm(<<tok.mant * Pow10(IF e > 0 THEN e ELSE 0),
            Pow10(IF e < 0 THEN 0 - e ELSE 0)>>)

IsNum(tok) == tok.t = "num"
\* the entries of the data array of the file, parsed
RECURSIVE ParsedData(_)
ParsedData(f) ==
  IF f = <<>> THEN <<>>
  ELSE (IF IsNum(Head(f)) THEN <<Parse(Head(f))>> ELSE <<>>)
         \o ParsedData(Tail(f))

\* the last call was the flush of an open sink
FlushedToSink == last.op = "flush" /\ last.pre.isOpen
\* what that flush wrote
Flushed == SubSeq(file, Len(last.pre.file) + 1, Len(file))
Commas(f) == Len(SelectSeq(f, LAMBDA tok : tok = Lit(", ")))

\* C8: the flush of an open sink with N >= 0 buffered samples writes the N
\* values in insertion order (as the numerals the stream prints for them),
\* with exactly max(N-1, 0) separators ", ", one between any two neighbours
\* and none before the first or after the last, then "]}", then the
\* timeUnits field with the label of TM; the file as a whole is the header
\* of one data set, the data and these closers, and the sink is closed.
C8_FlushFormat ==
  FlushedToSink =>
    LET N == Len(last.pre.m_buffer)
        D == IF N = 0 THEN 0 ELSE 2 * N - 1
    IN /\ Len(Flushed) = D + 4
       /\ \A i \in 1..N : Flushed[2 * i - 1] = Num(Format(last.pre.m_buffer[i]))
       /\ \A i \in 1..(N - 1) : Flushed[2 * i] = Lit(", ")
       /\ Commas(file) = (IF N = 0 THEN 0 ELSE N - 1)
       /\ Len(SelectSeq(file, IsNum)) = N
       /\ SubSeq(Flushed, D + 1, D + 4)
            = <<Lit("]}\n"), Lit("], \"timeUnits\": \""), Lit(TM),
                Lit("\"}\n")>>
       /\ \E name \in Names, colour \in Colours :
            SubSeq(file, 1, Len(last.pre.file)) = Header(name, colour)
       /\ ~isOpen

\* two samples flushed, the second one not the same as the first
C8_Witness ==
  /\ FlushedToSink
  /\ Len(last.pre.m_buffer) = 2
  /\ last.pre.m_buffer[1] # last.pre.m_buffer[2]
  /\ Commas(file) = 1

\* the values finalized since the last reset() call
SinceReset == SubSeq(finalized, dropped + 1, Len(finalized))
\* v as it reads after being printed with Precision significant digits
Printed(v) == Parse(Format(v))

\* v is a decimal number of at most Precision significant digits
ShortDecimal(v) ==
  \/ v[1] = 0
  \/ \E k \in 0..8 : /\ Pow10(k) % v[2] = 0
                      /\ Pow10(k) \div v[2] <= (Pow10(Precision) - 1) \div v[1]
  \/ /\ v[2] = 1
     /\ \E k \in 1..3 : /\ v[1] % Pow10(k) = 0
                         /\ v[1] \div Pow10(k) < Pow10(Precision)

\* C9 as stated: the data array of the file written at teardown is, in
\* order, the sequence of all values finalized by the successful
\* takeSample()/takeAverageSample() calls of the lifetime.
C9_RoundTripLifetime ==
  FlushedToSink => ParsedData(file) = finalized

\* C9 amended: the data array of the file written at teardown holds, in
\* order, one entry for each value finalized since the last reset() call
\* (or since construction), and the entry is the value rounded to 6
\* significant digits; it is the value itself when the value has no more
\* digits than that.
C9_RoundTripSinceReset ==
  FlushedToSink =>
    /\ Len(ParsedData(file)) = Len(SinceReset)
    /\ \A i \in 1..Len(SinceReset) : ParsedData(file)[i] = Printed(SinceReset[i])
    /\ \A i \in 1..Len(SinceReset) :
         ShortDecimal(SinceReset[i]) => ParsedData(file)[i] = SinceReset[i]

\* a value was dropped by reset(), and the file holds an entry that is not
\* the value finalized
C9_Witness ==
  /\ FlushedToSink
  /\ dropped > 0
  /\ \E i \in 1..Len(SinceReset) : ParsedData(file)[i] # SinceReset[i]

\* C10 as stated: from the opening of the sink to the flush at teardown no
\* call, the constructor included, writes to it.
C10_NothingWrittenBeforeFlush ==
  pc = "live" => file = <<>>

\* C10 amended: the constructor writes the header of the data set to the
\* sink right after opening it; from then to the flush at teardown no call
\* of start, pause, takeSample, takeAverageSample, totalTime or reset
\* writes to it: all the file holds before teardown is that header.
C10_OnlyHeaderBeforeFlush ==
  /\ (last.op \in {"start", "pause", "takeSample", "takeAverageSample",
                   "totalTime", "reset"}) => SinkUnchanged
  /\ (pc = "live" /\ isOpen)
        => \E name \in Names, colour \in Colours : file = Header(name, colour)
  /\ (pc = "live" /\ ~isOpen) => file = <<>>

\* a reset() of a timer with two buffered samples and an open sink
C10_Witness ==
  /\ last.op = "reset"
  /\ Len(last.pre.m_buffer) = 2
  /\ isOpen /\ file # <<>>

\* C11: the sink is opened only by the constructor, so at most once; flush
\* runs only as the teardown, so once, and no call follows it; an open sink
\* is closed by that flush and by nothing else; nothing is written to a sink
\* that is not open, and a closed sink is not opened again.
C11_SinkLifecycle ==
  [][/\ pc # "done"
     /\ (~isOpen /\ isOpen') => (pc = "init" /\ last'.op = "construct")
     /\ (isOpen /\ ~isOpen') => (last'.op = "flush" /\ pc' = "done")
     /\ (last'.op = "flush") <=> (pc = "live" /\ pc' = "done")
     /\ (pc' = "done") => ~isOpen'
     /\ (file' # file) => (isOpen \/ isOpen')]_vars

\* the teardown of a timer whose sink was open through two reset() calls
C11_Witness ==
  /\ pc = "done" /\ ~isOpen
  /\ last.pre.isOpen
  /\ Len(file) > Len(last.pre.file)
  /\ dropped = 2

\* the measurement state of a snapshot
Measurement(s) ==
  [m_buffer |-> s.m_buffer, m_startPoint |-> s.m_startPoint,
   m_total |-> s.m_total, m_partial |-> s.m_partial, m_count |-> s.m_count,
   m_isInitialized |-> s.m_isInitialized]

\* the measurement state the call op, made at tick at in measurement state
\* m, leaves an instance in, told without any reference to a sink
SinkFree(op, m, at) ==
  LET el == Elapsed(m.m_startPoint, at)
      cleared == [m EXCEPT !.m_buffer = <<>>, !.m_total = RZero,
                           !.m_partial = RZero, !.m_count = 0,
                           !.m_isInitialized = FALSE]
  IN CASE op = "start" ->
            [m EXCEPT !.m_isInitialized = TRUE, !.m_startPoint = at]
       [] op = "pause" ->
            IF m.m_isInitialized
            THEN [m EXCEPT !.m_partial = RAdd(m.m_partial, el),
                           !.m_count = m.m_count + 1,
                           !.m_isInitialized = FALSE]
            ELSE m
       [] op = "takeSample" ->
            IF ~m.m_isInitialized /\ m.m_count = 0 THEN m
            ELSE LET v == IF m.m_count = 0 THEN el ELSE m.m_partial
                 IN [m EXCEPT !.m_buffer = Append(m.m_buffer, v),
                              !.m_total = RAdd(m.m_total, v),
                              !.m_partial = RZero, !.m_count = 0,
                              !.m_isInitialized = FALSE]
       [] op = "takeAverageSample" ->
            IF m.m_count = 0 THEN m
            ELSE [m EXCEPT !.m_buffer =
                             Append(m.m_buffer,
                                    RDivInt(m.m_partial, m.m_count)),
                           !.m_total = RAdd(m.m_total, m.m_partial),
                           !.m_partial = RZero, !.m_count = 0,
                           !.m_isInitialized = FALSE]
       [] op \in {"reset", "flush"} -> cleared
       [] OTHER -> m

\* the instance has no sink: no output directory, or the file did not open
NoSink ==
  \/ pc = "live" /\ ~isOpen
  \/ pc = "done" /\ ~last.pre.isOpen

C12_NoSharedPath ==
  \A i, j \in DOMAIN timers :
    (i # j /\ timers[i].open /\ timers[j].open)
      => timers[i].path # timers[j].path

\* C14: an instance constructed with the default outputDir ("") has its
\* dataset file created, in the current directory.
C14_DefaultDirCreatesFile ==
  \A i \in DOMAIN timers :
    (timers[i].outputDir = "")
      => (timers[i].open /\ timers[i].path.name = timers[i].name
          /\ ~timers[i].path.slash)

\* C15: in every reachable state, m_count = 0 implies m_partial = 0.
C15_NoPartialWithoutCount == (m_count = 0) => (m_partial = RZero)

\* a sample has just cleared a non-zero m_partial, or a single-shot sample
\* has measured a non-zero time
C15_Witness ==
  /\ last.op = "takeSample"
  /\ m_count = 0
  /\ m_partial = RZero
  /\ Len(m_buffer) = Len(last.pre.m_buffer) + 1
  /\ Appended # RZero
  /\ last.pre.m_count = 0

\* the last call was a sample call that found something to sample
SampleSucceeded ==
  \/ /\ last.op = "takeSample"
     /\ last.pre.m_isInitialized \/ last.pre.m_count > 0
  \/ /\ last.op = "takeAverageSample"
     /\ last.pre.m_count > 0

\* C16: start, pause, totalTime, takeSample and takeAverageSample leave the
\* buffer they found as a prefix of the buffer: one entry longer after a
\* successful sample, the same after anything else.
C16_BufferAppendOnly ==
  (last.op \in {"start", "pause", "totalTime", "takeSample",
                "takeAverageSample"})
    => IF SampleSucceeded THEN AppendedOne
       ELSE m_buffer = last.pre.m_buffer

\* an average appended behind an earlier, different sample
C16_Witness ==
  /\ last.op = "takeAverageSample"
  /\ SampleSucceeded
  /\ Len(last.pre.m_buffer) = 1
  /\ Len(m_buffer) = 2
  /\ m_buffer[1] = last.pre.m_buffer[1]
  /\ m_buffer[1] # m_buffer[2]

C18_Pause ==
  (last.op = "pause")
    => IF last.pre.m_isInitialized
       THEN /\ m_partial = RAdd(last.pre.m_partial,
                                Elapsed(last.pre.m_startPoint, last.at))
            /\ m_count = last.pre.m_count + 1
            /\ ~m_isInitialized
            /\ m_total = last.pre.m_total
            /\ m_buffer = last.pre.m_buffer
            /\ m_startPoint = last.pre.m_startPoint
       ELSE Snapshot = last.pre

\* a pause on a timer already paused, after a segment of non-zero length
\* behind an earlier one
C18_Witness ==
  /\ last.op = "pause"
  /\ ~last.pre.m_isInitialized
  /\ last.pre.m_count = 2
  /\ m_count = 2
  /\ m_partial # RZero

\* C19: start sets running and moves the reference point to the time of the
\* call, and leaves partial, count, total, buffer and sink alone; the pause
\* or single-shot takeSample that follows a start measures from that start,
\* whatever came before it.
C19_Start ==
  /\ (last.op = "start")
       => /\ m_isInitialized
          /\ m_startPoint = last.at
          /\ Snapshot = [last.pre EXCEPT !.m_isInitialized = TRUE,
                                         !.m_startPoint = last.at]
  /\ (last.op = "pause" /\ last.afterStart)
       => m_partial = RAdd(last.pre.m_partial,
                           Elapsed(last.startAt, last.at))
  /\ (last.op = "takeSample" /\ last.afterStart /\ last.pre.m_count = 0)
       => Appended = Elapsed(last.startAt, last.at)

\* a second start, later than the first, on a timer that was running
C19_Witness ==
  /\ last.op = "start"
  /\ last.afterStart
  /\ last.pre.m_isInitialized
  /\ last.at > last.startAt
  /\ m_startPoint = last.at

\* the last call folded an elapsed time into m_partial
Folded == last.op = "pause" /\ m_count # last.pre.m_count
\* the last call appended an elapsed time it read itself
AppendedElapsed ==
  /\ last.op = "takeSample"
  /\ last.pre.m_count = 0
  /\ Len(m_buffer) # Len(last.pre.m_buffer)

\* C20: every elapsed time folded into the partial or appended to the
\* buffer is read while the timer is running and is measured from a start()
\* made after the latest call that left the timer not running, never from a
\* reference point that is stale or was never set; while the timer runs the
\* reference point is the time of that start().
C20_ReferenceIsFresh ==
  /\ m_isInitialized => (last.ref # NoRef /\ m_startPoint = last.ref)
  /\ ~m_isInitialized => last.ref = NoRef
  /\ Folded
       => /\ last.pre.m_isInitialized
          /\ last.preRef # NoRef
          /\ m_partial = RAdd(last.pre.m_partial,
                              Elapsed(last.preRef, last.at))
  /\ AppendedElapsed
       => /\ last.pre.m_isInitialized
          /\ last.preRef # NoRef
          /\ Appended = Elapsed(last.preRef, last.at)

\* a segment measured from a start() that came after a pause had cleared
\* the timer: the reference point of the first segment was stale by then
C20_Witness ==
  /\ Folded
  /\ last.pre.m_count = 1
  /\ last.preRef # NoRef
  /\ last.preRef > BootTime
  /\ Len(segs) = 2
  /\ segs[2] = Elapsed(last.preRef, last.at)

\* how long after the call before a call can come
Steps == 0..MaxTime

Next ==
  \/ \E name \in Names, colour \in Colours, outputDir \in OutputDirs,
        opened \in BOOLEAN, d \in Steps :
          Construct(name, colour, outputDir, opened, d)
  \/ \E d \in Steps : start(d)
  \/ \E print \in BOOLEAN, d \in Steps : takeSample(print, d)
  \/ \E print \in BOOLEAN, d \in Steps : takeAverageSample(print, d)
  \/ \E d \in Steps : pause(d)
  \/ \E d \in Steps : totalTime(d)
  \/ \E d \in Steps : reset(d)
  \/ \E d \in Steps : Destroy(d)

Spec == Init /\ [][Next]_vars

\* The caller of usage example 2: a loop of start() ... pause(), left after
\* at least one round for takeSample(true), and the timer then destroyed.
LoopNext ==
  \/ \E name \in Names, colour \in Colours, outputDir \in OutputDirs,
        opened \in BOOLEAN, d \in Steps :
          Construct(name, colour, outputDir, opened, d)
  \/ \E d \in Steps : ~m_isInitialized /\ m_buffer = <<>> /\ start(d)
  \/ \E d \in Steps : m_isInitialized /\ pause(d)
  \/ \E d \in Steps : /\ ~m_isInitialized /\ m_count > 0
                       /\ takeSample(TRUE, d)
  \/ \E d \in Steps : m_buffer # <<>> /\ Destroy(d)

SpecLoop == Init /\ [][LoopNext]_vars

\* A process that constructs and destroys instances as the calendar runs.
FilesNext ==
  \/ Tock
  \/ \E name \in Names, outputDir \in OutputDirs, opened \in BOOLEAN,
        late \in 0..1 :
          NewTimer(name, outputDir, opened, late)
  \/ \E i \in 1..MaxTimers : EndTimer(i)

SpecFiles == Init /\ [][FilesNext]_vars
====
